---------------------------- MODULE Spec2Model ----------------------------
(***************************************************************************)
(* A model of zwift_zwo_docs/analyse_zwo.py: the document loader           *)
(* (parse_zwo), the path extractor (list_tag_attribute_usage), the         *)
(* datatype inferencer (analyse_datatype), the aggregator                  *)
(* (aggregate_tag_attribute_usage) and the driver (main).                  *)
(*                                                                         *)
(* Representation.  A Python str is a sequence of code points (10 is the   *)
(* newline, 32 the space, 46 the point, 48..57 the digits, 97 "a", 123     *)
(* the opening brace).  An optional value (None or a value) is a sequence  *)
(* of length 0 or 1.  A dict or Counter is the sequence of its             *)
(* <<key, value>> items in insertion order, which is the order Python      *)
(* iterates it in.  A float quotient count / total is kept as the exact    *)
(* pair <<count, total>>; for the integers that occur here the comparisons *)
(* with 0.05 and 0.1 agree with the comparisons of the exact rationals.    *)
(***************************************************************************)
EXTENDS Integers, Sequences, FiniteSets, TLC

VARIABLES
    value_counts,   \* analyse_datatype: the Counter passed in
    analysis,       \* analyse_datatype: optional returned dict
    content,        \* parse_zwo: the bytes of the file at `path`
    parsed,         \* parse_zwo: optional outcome of the call
    pc,             \* main: "scan", "report", "done" or "crashed"
    listing,        \* main: the files list_zwo_file_paths has yielded so far
    stack,          \* list_tag_attribute_usage: the suspended generator frames
    visited,        \* the nodes of the current tree yielded so far
    records,        \* every usage record yielded so far
    tags,           \* aggregate_tag_attribute_usage: the `tags` dict
    attributes,     \* aggregate_tag_attribute_usage: the `attributes` dict
    tag_attr_usage, \* main: optional result of the aggregation
    output          \* main: what has been written to sys.stdout

analyseVars == <<value_counts, analysis>>

parseVars == <<content, parsed>>

mainVars == <<pc, listing, stack, visited, records, tags, attributes,
              tag_attr_usage, output>>

vars == <<value_counts, analysis, content, parsed, pc, listing, stack,
          visited, records, tags, attributes, tag_attr_usage, output>>

----------------------------------------------------------------------------
(* Bounds of the model. *)

MaxLen == 2       \* longest value string of the two-value inputs
MaxCount == 3     \* largest count of one value
NumVals == 11     \* distinct values of the many-value inputs
MaxTokens == 2    \* pieces of a file given to parse_zwo alone
MaxFiles == 3     \* files of the workouts directory
MaxNodes == 3     \* nodes of all the trees of the directory together

----------------------------------------------------------------------------
(* Sequence helpers. *)

None == <<>>

Some(x) == <<x>>

Range(s) == {s[i] : i \in 1..Len(s)}

Take(s, n) == SubSeq(s, 1, IF n < Len(s) THEN n ELSE Len(s))

Front(s) == SubSeq(s, 1, Len(s) - 1)

Last(s) == s[Len(s)]

RECURSIVE SumSeq(_)
SumSeq(s) == IF s = <<>> THEN 0 ELSE Head(s) + SumSeq(Tail(s))

MaxOf(S) == CHOOSE m \in S : \A x \in S : x <= m

(* Python's ordering of str: lexicographic by code point. *)
RECURSIVE StrLess(_, _)
StrLess(a, b) ==
    IF b = <<>> THEN FALSE
    ELSE IF a = <<>> THEN TRUE
    ELSE IF Head(a) # Head(b) THEN Head(a) < Head(b)
    ELSE StrLess(Tail(a), Tail(b))

----------------------------------------------------------------------------
(* re.match with the two patterns of analyse_datatype. *)

(* \d, for the ASCII code points. *)
IsDigit(c) == c \in 48..57

AllDigits(s) == \A i \in 1..Len(s) : IsDigit(s[i])

(* `$` after n consumed characters: at the end of the string, or just      *)
(* before a newline that is the last character of the string.              *)
AtDollar(val, n) ==
    \/ n = Len(val)
    \/ n = Len(val) - 1 /\ val[Len(val)] = 10

\* re.match(r'^\d+$', val)
MatchInteger(val) ==
    \E n \in 1..Len(val) :
        /\ AllDigits(SubSeq(val, 1, n))
        /\ AtDollar(val, n)

\* re.match(r'^\d+(?:\.\d*)?$', val)
MatchReal(val) ==
    \E n \in 1..Len(val) :
        /\ AllDigits(SubSeq(val, 1, n))
        /\ \/ AtDollar(val, n)
           \/ /\ n < Len(val)
              /\ val[n + 1] = 46
              /\ \E m \in (n + 1)..Len(val) :
                    /\ AllDigits(SubSeq(val, n + 2, m))
                    /\ AtDollar(val, m)

----------------------------------------------------------------------------
(* analyse_datatype *)

Keys(d) == [i \in 1..Len(d) |-> d[i][1]]

Values(d) == [i \in 1..Len(d) |-> d[i][2]]

InferDatatype(value_counts_) ==
    IF \A val \in Range(Keys(value_counts_)) : MatchInteger(val)
        THEN "integer"
    ELSE IF \A val \in Range(Keys(value_counts_)) : MatchReal(val)
        THEN "real"
    ELSE "string"

(* sorted(..., reverse=True, key=key) with key = the count: a stable sort, *)
(* so items of equal count keep the order of value_counts.items().         *)
InsertByCount_ties_reversed(sorted, item) ==
    LET k == Cardinality({i \in 1..Len(sorted) : sorted[i][2] > item[2]})
    IN SubSeq(sorted, 1, k) \o <<item>> \o SubSeq(sorted, k + 1, Len(sorted))

InsertByCount(sorted, item) ==
    LET k == Cardinality({i \in 1..Len(sorted) : sorted[i][2] >= item[2]})
    IN SubSeq(sorted, 1, k) \o <<item>> \o SubSeq(sorted, k + 1, Len(sorted))

RECURSIVE SortedByCount(_)
SortedByCount(items) ==
    IF items = <<>> THEN <<>>
    ELSE InsertByCount(SortedByCount(Front(items)), Last(items))

(* (count / total_occurrences) >= 0.05 or highest_freq_value > 0.1, with   *)
(* highest_freq_value = top / total_occurrences.                           *)
MeetsThreshold_first_clause_only(count, total, top) ==
    count * 20 >= total

MeetsThreshold(count, total, top) ==
    \/ count * 20 >= total
    \/ top * 10 > total

SampleCap == 10

Exhaustive_any_sample(sample_values, value_counts_) ==
    Len(sample_values) > 0

Exhaustive(sample_values, value_counts_) ==
    Len(sample_values) = Len(value_counts_)

(* The list comprehension and slice of lines 79-82. *)
SampleValues(sorted, total_occurrences, top) ==
    LET kept == SelectSeq(sorted,
                    LAMBDA vc : MeetsThreshold(vc[2], total_occurrences, top))
        capped == Take(kept, SampleCap)
    IN [i \in 1..Len(capped) |->
            <<capped[i][1], <<capped[i][2], total_occurrences>> >>]

ValueAnalysis(datatype, sample_values, total_occurrences, value_counts_) ==
    [datatype |-> datatype,
     value_samples |->
        [exhaustive |-> Exhaustive(sample_values, value_counts_),
         values |-> sample_values,
         total_occurrences |-> total_occurrences]]

analyse_datatype(value_counts_) ==
    LET total_occurrences == SumSeq(Values(value_counts_))
        top == MaxOf(Range(Values(value_counts_)))
    IN ValueAnalysis(
            InferDatatype(value_counts_),
            SampleValues(SortedByCount(value_counts_), total_occurrences, top),
            total_occurrences,
            value_counts_)

(* The state of main while one function is exercised on its own. *)
MainIdle ==
    /\ pc = "idle"
    /\ listing = <<>>
    /\ stack = <<>>
    /\ visited = <<>>
    /\ records = <<>>
    /\ tags = <<>>
    /\ attributes = <<>>
    /\ tag_attr_usage = None
    /\ output = <<>>

----------------------------------------------------------------------------
(* Inputs of analyse_datatype. *)

Alphabet == {10, 46, 49, 97}

RECURSIVE StringsOfLen(_)
StringsOfLen(n) ==
    IF n = 0 THEN {<<>>}
    ELSE {<<c>> \o s : c \in Alphabet, s \in StringsOfLen(n - 1)}

Strings == UNION {StringsOfLen(n) : n \in 0..MaxLen}

(* A Counter of one or two values, in either insertion order. *)
IsSmallCounter(vc) ==
    \/ \E v \in Strings, c \in 1..MaxCount : vc = << <<v, c>> >>
    \/ \E v \in Strings, w \in Strings, c \in 1..MaxCount, d \in 1..MaxCount :
          /\ v # w
          /\ vc = << <<v, c>>, <<w, d>> >>

(* str(i) for 1 <= i <= 99 *)
Decimal(i) ==
    IF i < 10 THEN <<48 + i>> ELSE <<48 + (i \div 10), 48 + (i % 10)>>

(* A Counter of up to NumVals values "1", "2", ..., first recorded in      *)
(* ascending or in descending order, each count one of two levels.         *)
IsManyCounter(vc) ==
    \E k \in 1..NumVals, asc \in BOOLEAN, c \in 1..MaxCount, d \in 1..MaxCount :
        \E hi \in SUBSET (1..k) :
            /\ d <= c
            /\ vc = [i \in 1..k |->
                    <<Decimal(IF asc THEN i ELSE k + 1 - i),
                      IF i \in hi THEN c ELSE d>>]

InitAnalyse ==
    /\ IsSmallCounter(value_counts) \/ IsManyCounter(value_counts)
    /\ analysis = None
    /\ content = <<>>
    /\ parsed = None
    /\ MainIdle

Analyse ==
    /\ analysis = None
    /\ analysis' = Some(analyse_datatype(value_counts))
    /\ UNCHANGED <<value_counts, parseVars, mainVars>>

NextAnalyse == Analyse

SpecAnalyse == InitAnalyse /\ [][NextAnalyse]_vars

----------------------------------------------------------------------------
(* parse_zwo.  The bytes of a file are a sequence of pieces:               *)
(*   "TEXT"       markup and character data without an ampersand           *)
(*   "AMP_SP"     character data holding a bare ' & '                      *)
(*   "AMP_ESC"    character data holding ' &amp; '                         *)
(*   "AMP_NL"     character data holding a bare '&' before a line break    *)
(*   "CDATA_AMP"  a CDATA section holding ' & '                            *)
(*   "CDATA_ESC"  a CDATA section holding ' &amp; '                        *)
(*   "BAD"        an end tag that does not match its start tag             *)

Pieces == {"TEXT", "AMP_SP", "AMP_ESC", "AMP_NL", "CDATA_AMP", "CDATA_ESC", "BAD"}

(* The message of the XMLSyntaxError a piece raises, "" if it parses. *)
PieceError(piece) ==
    CASE piece \in {"AMP_SP", "AMP_NL"} -> "xmlParseEntityRef: no name"
      [] piece = "BAD" -> "Opening and ending tag mismatch"
      [] OTHER -> ""

(* The text a well-formed piece contributes to the parsed tree. *)
PieceText(piece) ==
    CASE piece \in {"AMP_ESC", "CDATA_AMP"} -> "text & text"
      [] piece = "CDATA_ESC" -> "text &amp; text"
      [] OTHER -> "text"

(* etree.parse: the tree, or the first error of the document. *)
EtreeParse(bytes) ==
    LET bad == {i \in 1..Len(bytes) : PieceError(bytes[i]) # ""}
    IN IF bad = {}
        THEN [error |-> "", tree |-> [i \in 1..Len(bytes) |-> PieceText(bytes[i])]]
        ELSE [error |-> PieceError(bytes[CHOOSE i \in bad : \A j \in bad : i <= j]),
              tree |-> <<>>]

(* content.replace(b' & ', b' &amp; ') *)
ReplaceAmp(bytes) ==
    [i \in 1..Len(bytes) |->
        CASE bytes[i] = "AMP_SP" -> "AMP_ESC"
          [] bytes[i] = "CDATA_AMP" -> "CDATA_ESC"
          [] OTHER -> bytes[i]]

(* Whether the except clause of parse_zwo re-raises. *)
Reraises(error) == error # "xmlParseEntityRef: no name"

(* The outcome of parse_zwo: the tree returned or the error raised, and    *)
(* whether the file was read again, repaired and parsed a second time.     *)
parse_zwo(bytes) ==
    LET first == EtreeParse(bytes)
    IN IF first.error # "" /\ Reraises(first.error)
        THEN [error |-> first.error, tree |-> <<>>, reparsed |-> FALSE]
        ELSE LET second == EtreeParse(ReplaceAmp(bytes))
             IN [error |-> second.error, tree |-> second.tree, reparsed |-> TRUE]

RECURSIVE PieceSeqs(_)
PieceSeqs(n) ==
    IF n = 0 THEN {<<>>}
    ELSE {<<x>> \o s : x \in Pieces, s \in PieceSeqs(n - 1)}

InitParse ==
    /\ content \in UNION {PieceSeqs(n) : n \in 1..MaxTokens}
    /\ parsed = None
    /\ value_counts = <<>>
    /\ analysis = None
    /\ MainIdle

Parse ==
    /\ parsed = None
    /\ parsed' = Some(parse_zwo(content))
    /\ UNCHANGED <<content, analyseVars, mainVars>>

NextParse == Parse

SpecParse == InitParse /\ [][NextParse]_vars

----------------------------------------------------------------------------
(* Parsed trees.  The nodes of a tree are 1..n with root 1; kids[i] is the *)
(* sequence of the children of node i in document order and kind[i]        *)
(* indexes what node i is.                                                 *)

(* What a node can be: four elements and a comment. The tags are "a" and   *)
(* "b", the attribute names "x" and the namespaced "{n}y".                 *)
NodeKinds == <<
    [isElement |-> TRUE, tag |-> <<97>>, text |-> None,
     attrib |-> <<>>],
    [isElement |-> TRUE, tag |-> <<97>>, text |-> Some(<<49>>),
     attrib |-> << <<(<<120>>), (<<49>>)>> >>],
    [isElement |-> TRUE, tag |-> <<98>>, text |-> Some(<<50>>),
     attrib |-> << <<(<<120>>), (<<50>>)>>, <<(<<123, 110, 125, 121>>), (<<49>>)>> >>],
    [isElement |-> TRUE, tag |-> <<98>>, text |-> Some(<<32, 10>>),
     attrib |-> << <<(<<123, 110, 125, 121>>), (<<50>>)>> >>],
    [isElement |-> FALSE, tag |-> <<>>, text |-> Some(<<97>>),
     attrib |-> <<>>] >>

RECURSIVE Ascending(_)
Ascending(S) ==
    IF S = {} THEN <<>>
    ELSE LET m == CHOOSE x \in S : \A y \in S : x <= y
         IN <<m>> \o Ascending(S \ {m})

Reverse(s) == [i \in 1..Len(s) |-> s[Len(s) + 1 - i]]

MakeTree(n, parent, kind, rev) ==
    [n |-> n,
     kind |-> kind,
     kids |-> [i \in 1..n |->
                LET asc == Ascending({j \in 1..n : parent[j] = i})
                IN IF rev THEN Reverse(asc) ELSE asc]]

(* The parents and kinds that make a tree of n nodes: an element at the    *)
(* root, comments childless, children in ascending or descending order.    *)
IsTreeShape(n, parent, kind, rev) ==
    /\ parent[1] = 0
    /\ \A i \in 2..n : parent[i] \in 1..(i - 1)
    /\ NodeKinds[kind[1]].isElement
    /\ \A i \in 2..n : NodeKinds[kind[parent[i]]].isElement
    /\ rev => \E i \in 2..n, j \in 2..n : i # j /\ parent[i] = parent[j]

Node(t, i) == NodeKinds[t.kind[i]]

----------------------------------------------------------------------------
(* list_tag_attribute_usage *)

(* list(element.iterchildren(tag=etree.Element)) *)
ElementChildren(t, node) ==
    SelectSeq(t.kids[node], LAMBDA c : Node(t, c).isElement)

(* str.isspace() for the code points below 256. *)
IsSpace(c) == c \in {9, 10, 11, 12, 13, 28, 29, 30, 31, 32, 133, 160}

(* str.strip() *)
RECURSIVE Strip(_)
Strip(str) ==
    IF str = <<>> THEN <<>>
    ELSE IF IsSpace(Head(str)) THEN Strip(Tail(str))
    ELSE IF IsSpace(Last(str)) THEN Strip(Front(str))
    ELSE str

TextValue_ignoring_children(text, children) ==
    IF text # None /\ text[1] # <<>> /\ Strip(text[1]) # <<>>
        THEN text
    ELSE None

(* element.text if (len(children) == 0 and element.text                    *)
(*                  and element.text.strip()) else None                    *)
TextValue(text, children) ==
    IF Len(children) = 0 /\ text # None /\ text[1] # <<>> /\ Strip(text[1]) # <<>>
        THEN text
    ELSE None

KeepsAttribute_always(k) == TRUE

(* not k.startswith('{') *)
KeepsAttribute(k) == ~(Len(k) >= 1 /\ k[1] = 123)

(* The tuple yielded for the element of a frame. *)
UsageRecord(t, frame) ==
    [path |-> frame.parent_path,
     tag |-> Node(t, frame.node).tag,
     attrs |-> SelectSeq(Node(t, frame.node).attrib,
                    LAMBDA kv : KeepsAttribute(kv[1])),
     value |-> TextValue(Node(t, frame.node).text,
                    ElementChildren(t, frame.node))]

ChildPath_without_own_tag(parent_path, tag) == parent_path

(* path = parent_path + (element.tag,) *)
ChildPath(parent_path, tag) == Append(parent_path, tag)

(* The generators started by the for loop over the children, first first. *)
ChildFrames(t, frame) ==
    LET children == ElementChildren(t, frame.node)
        path == ChildPath(frame.parent_path, Node(t, frame.node).tag)
    IN [i \in 1..Len(children) |-> [node |-> children[i], parent_path |-> path]]

RootFrame == [node |-> 1, parent_path |-> <<>>]

(* The generator resumed once: the frames left after the next yield. *)
Resume(t, frames) == ChildFrames(t, Head(frames)) \o Tail(frames)

RECURSIVE Drain(_, _)
Drain(t, frames) ==
    IF frames = <<>> THEN <<>>
    ELSE <<UsageRecord(t, Head(frames))>> \o Drain(t, Resume(t, frames))

(* The whole sequence the generator yields for a tree. *)
list_tag_attribute_usage(t) == Drain(t, <<RootFrame>>)

----------------------------------------------------------------------------
(* aggregate_tag_attribute_usage.  `tags` and `attributes` are only read   *)
(* through sorted(keys), so they are functions on their key sets.          *)

Get(dict, key, default) == IF key \in DOMAIN dict THEN dict[key] ELSE default

Put(dict, key, val) ==
    [k \in DOMAIN dict \cup {key} |-> IF k = key THEN val ELSE dict[k]]

(* counter[key] += 1 *)
Increment(counter, key) ==
    IF \E i \in 1..Len(counter) : counter[i][1] = key
        THEN [i \in 1..Len(counter) |->
                IF counter[i][1] = key
                    THEN <<key, counter[i][2] + 1>>
                ELSE counter[i]]
    ELSE Append(counter, <<key, 1>>)

NewTag == [paths |-> {}, attributes |-> {}, value |-> <<>>]

NewAttribute == [tags |-> {}, values |-> <<>>]

UpdateAttributeNames_overwrite(seen, names) == names

(* tags[tag]['attributes'].update(attrs.keys()) *)
UpdateAttributeNames(seen, names) == seen \cup names

(* Lines 119, 120, 124, 125: the record's effect on `tags`. *)
AddToTags(tags_, rec) ==
    LET old == Get(tags_, rec.tag, NewTag)
    IN Put(tags_, rec.tag,
            [paths |-> old.paths \cup {rec.path},
             attributes |-> UpdateAttributeNames(old.attributes, Range(Keys(rec.attrs))),
             value |-> IF rec.value # None
                          THEN Increment(old.value, rec.value[1])
                       ELSE old.value])

(* Lines 121-123: the record's effect on `attributes`. *)
RECURSIVE AddToAttributes(_, _, _)
AddToAttributes(attributes_, items, tag) ==
    IF items = <<>> THEN attributes_
    ELSE LET attr == Head(items)[1]
             attr_val == Head(items)[2]
             old == Get(attributes_, attr, NewAttribute)
         IN AddToAttributes(
                Put(attributes_, attr,
                    [tags |-> old.tags \cup {tag},
                     values |-> Increment(old.values, attr_val)]),
                Tail(items), tag)

(* sorted() of a set of str, and of a set of tuples of str. *)
RECURSIVE PathLess(_, _)
PathLess(a, b) ==
    IF b = <<>> THEN FALSE
    ELSE IF a = <<>> THEN TRUE
    ELSE IF Head(a) # Head(b) THEN StrLess(Head(a), Head(b))
    ELSE PathLess(Tail(a), Tail(b))

RECURSIVE SortedStrs(_)
SortedStrs(S) ==
    IF S = {} THEN <<>>
    ELSE LET m == CHOOSE x \in S : \A y \in S \ {x} : StrLess(x, y)
         IN <<m>> \o SortedStrs(S \ {m})

RECURSIVE SortedPaths(_)
SortedPaths(S) ==
    IF S = {} THEN <<>>
    ELSE LET m == CHOOSE x \in S : \A y \in S \ {x} : PathLess(x, y)
         IN <<m>> \o SortedPaths(S \ {m})

(* The dict returned at lines 127-146. *)
UsageResult(tags_, attributes_) ==
    LET tagNames == SortedStrs(DOMAIN tags_)
        attrNames == SortedStrs(DOMAIN attributes_)
    IN [elements |->
            [i \in 1..Len(tagNames) |->
                LET tag == tagNames[i]
                IN [tag |-> tag,
                    paths |-> SortedPaths(tags_[tag].paths),
                    attributes |-> SortedStrs(tags_[tag].attributes),
                    value |-> IF tags_[tag].value # <<>>
                                 THEN Some(analyse_datatype(tags_[tag].value))
                              ELSE None]],
        attributes |->
            [i \in 1..Len(attrNames) |->
                LET attribute == attrNames[i]
                IN [attribute |-> attribute,
                    tags |-> SortedStrs(attributes_[attribute].tags),
                    value |-> analyse_datatype(attributes_[attribute].values)]]]

RECURSIVE FoldRecords(_, _, _)
FoldRecords(tags_, attributes_, recs) ==
    IF recs = <<>> THEN UsageResult(tags_, attributes_)
    ELSE FoldRecords(AddToTags(tags_, Head(recs)),
                     AddToAttributes(attributes_, Head(recs).attrs, Head(recs).tag),
                     Tail(recs))

aggregate_tag_attribute_usage(tag_attr_paths) ==
    FoldRecords(<<>>, <<>>, tag_attr_paths)

----------------------------------------------------------------------------
(* main *)

(* The files the directory can hold: one piece of bytes each. *)
FilePieces == {"TEXT", "AMP_SP", "AMP_NL", "BAD"}

NodesListed == SumSeq([i \in 1..Len(listing) |->
                        IF listing[i].root = None THEN 0 ELSE listing[i].root[1].n])

CurrentTree == Last(listing).root[1]

(* What an exception raised by parse_zwo inside the generator expression   *)
(* does to main: it propagates through the aggregation and ends the run.   *)
AfterParseError_skip_file == "scan"

AfterParseError == "crashed"

InitMain ==
    /\ pc = "scan"
    /\ listing = <<>>
    /\ stack = <<>>
    /\ visited = <<>>
    /\ records = <<>>
    /\ tags = <<>>
    /\ attributes = <<>>
    /\ tag_attr_usage = None
    /\ output = <<>>
    /\ value_counts = <<>>
    /\ analysis = None
    /\ content = <<>>
    /\ parsed = None

(* The generator expression of main takes the next path and parse_zwo      *)
(* raises. *)
NextFileFails ==
    /\ pc = "scan"
    /\ stack = <<>>
    /\ Len(listing) < MaxFiles
    /\ \E piece \in FilePieces :
        /\ parse_zwo(<<piece>>).error # ""
        /\ listing' = Append(listing, [content |-> <<piece>>, root |-> None])
    /\ pc' = AfterParseError
    /\ visited' = <<>>
    /\ UNCHANGED <<stack, records, tags, attributes, tag_attr_usage, output,
                   analyseVars, parseVars>>

(* The generator expression of main takes the next path, parse_zwo returns *)
(* its tree and list_tag_attribute_usage starts at the root. *)
NextFileParses ==
    /\ pc = "scan"
    /\ stack = <<>>
    /\ Len(listing) < MaxFiles
    /\ \E piece \in FilePieces, n \in 1..(MaxNodes - NodesListed) :
        /\ parse_zwo(<<piece>>).error = ""
        /\ \E parent \in [1..n -> 0..(n - 1)],
              kind \in [1..n -> 1..Len(NodeKinds)], rev \in BOOLEAN :
            /\ IsTreeShape(n, parent, kind, rev)
            /\ listing' = Append(listing,
                    [content |-> <<piece>>,
                     root |-> Some(MakeTree(n, parent, kind, rev))])
    /\ stack' = <<RootFrame>>
    /\ visited' = <<>>
    /\ UNCHANGED <<pc, records, tags, attributes, tag_attr_usage, output,
                   analyseVars, parseVars>>

(* The generator yields the next record and the loop body of               *)
(* aggregate_tag_attribute_usage consumes it. *)
WalkStep ==
    /\ pc = "scan"
    /\ stack # <<>>
    /\ LET rec == UsageRecord(CurrentTree, Head(stack))
       IN /\ records' = Append(records, rec)
          /\ tags' = AddToTags(tags, rec)
          /\ attributes' = AddToAttributes(attributes, rec.attrs, rec.tag)
    /\ visited' = Append(visited, Head(stack).node)
    /\ stack' = Resume(CurrentTree, stack)
    /\ UNCHANGED <<pc, listing, tag_attr_usage, output, analyseVars, parseVars>>

(* The directory walk is exhausted: the aggregation returns its result. *)
Aggregated ==
    /\ pc = "scan"
    /\ stack = <<>>
    /\ tag_attr_usage' = Some(UsageResult(tags, attributes))
    /\ pc' = "report"
    /\ UNCHANGED <<listing, stack, visited, records, tags, attributes, output,
                   analyseVars, parseVars>>

(* Lines 159-183: the report, as the JSON document or as the two sections. *)
Rendered(usage, asJson) ==
    IF asJson
        THEN <<[line |-> "json", data |-> <<usage>>]>>
    ELSE <<[line |-> "## Tags ##", data |-> <<>>]>>
         \o [i \in 1..Len(usage.elements) |->
                [line |-> "tag", data |-> <<usage.elements[i]>>]]
         \o <<[line |-> "## Attributes ##", data |-> <<>>]>>
         \o [i \in 1..Len(usage.attributes) |->
                [line |-> "attribute", data |-> <<usage.attributes[i]>>]]

(* args['--json'] is read here, after the aggregation. *)
Report ==
    /\ pc = "report"
    /\ \E asJson \in BOOLEAN : output' = Rendered(tag_attr_usage[1], asJson)
    /\ pc' = "done"
    /\ UNCHANGED <<listing, stack, visited, records, tags, attributes,
                   tag_attr_usage, analyseVars, parseVars>>

NextMain ==
    \/ NextFileFails
    \/ NextFileParses
    \/ WalkStep
    \/ Aggregated
    \/ Report

SpecMain == InitMain /\ [][NextMain]_vars

----------------------------------------------------------------------------
(* Properties of analyse_datatype, checked under SpecAnalyse. *)

Analysed == analysis # None

Samples == analysis[1].value_samples.values

ClaimTotal == SumSeq(Values(value_counts))

ClaimTop == MaxOf(Range(Values(value_counts)))

(* The sampling condition as the specification words it:                   *)
(* count / total >= 0.05 or top / total > 0.1.                             *)
QualifiesOf(count, total, top) ==
    \/ count * 20 >= total
    \/ top * 10 > total

QualifyingOf(total, top) ==
    {i \in 1..Len(value_counts) : QualifiesOf(value_counts[i][2], total, top)}

Qualifying == QualifyingOf(ClaimTotal, ClaimTop)

AllQualify == Cardinality(Qualifying) = Len(value_counts)

SamplesWithin(Q) ==
    /\ \A j \in 1..Len(Samples) :
          \E i \in Q : value_counts[i][1] = Samples[j][1]
    /\ Len(Samples) <= 10
    /\ Cardinality(Q) <= 10 =>
          \A i \in Q :
              \E j \in 1..Len(Samples) : Samples[j][1] = value_counts[i][1]

(* C1: every returned sample is a value that meets the sampling condition, *)
(* at most 10 samples are returned, and when at most 10 distinct values    *)
(* meet the condition every one of them is returned.                       *)
C1_SamplesMeetThreshold == Analysed => SamplesWithin(Qualifying)

(* A value below both thresholds is left out while ten others are kept. *)
C1_Witness ==
    /\ Analysed
    /\ Cardinality(Qualifying) = 10
    /\ Len(value_counts) > 10
    /\ Len(Samples) = 10

ClaimAllDigits(v) == Len(v) >= 1 /\ AllDigits(v)

ClaimDecimal(v) ==
    \E n \in 1..Len(v) :
        /\ AllDigits(SubSeq(v, 1, n))
        /\ \/ n = Len(v)
           \/ n < Len(v) /\ v[n + 1] = 46 /\ AllDigits(SubSeq(v, n + 2, Len(v)))

(* C2: the datatype is 'integer' iff every distinct value is all digits,   *)
(* otherwise 'real' iff every distinct value is digits optionally followed *)
(* by a decimal point and further digits, otherwise 'string'.              *)
C2_DatatypeByDigits ==
    Analysed =>
        analysis[1].datatype =
            IF \A v \in Range(Keys(value_counts)) : ClaimAllDigits(v)
                THEN "integer"
            ELSE IF \A v \in Range(Keys(value_counts)) : ClaimDecimal(v)
                THEN "real"
            ELSE "string"

SampleCount(j) == Samples[j][2][1]

FirstRecorded(v) == CHOOSE i \in 1..Len(value_counts) : value_counts[i][1] = v

C4_ExhaustiveIffAllQualify ==
    Analysed =>
        (analysis[1].value_samples.exhaustive
            <=> AllQualify)

(* C4 as amended: 'exhaustive' is true iff every distinct value met the    *)
(* sampling condition and there are at most 10 distinct values.            *)
C4_ExhaustiveIffAllQualifyWithinCap ==
    Analysed =>
        (analysis[1].value_samples.exhaustive
            <=> /\ AllQualify
                /\ Len(value_counts) <= 10)

(* More than 10 distinct values, all meeting the condition: not exhaustive. *)
C4_Witness ==
    /\ Analysed
    /\ Len(value_counts) > 10
    /\ AllQualify
    /\ ~analysis[1].value_samples.exhaustive

----------------------------------------------------------------------------
(* Properties of parse_zwo, checked under SpecParse. *)

(* C8: the repair is applied only when the first parse fails with an       *)
(* unescaped-entity-reference error: when the first parse succeeds the     *)
(* tree returned is the parse of the unmodified content, and when it fails *)
(* with any other error that error propagates without repair or re-parse.  *)
C8_RepairOnlyOnEntityError ==
    parsed # None =>
        LET first == EtreeParse(content)
        IN /\ first.error = "" =>
                /\ parsed[1].error = ""
                /\ parsed[1].tree = first.tree
           /\ first.error \notin {"", "xmlParseEntityRef: no name"} =>
                /\ parsed[1].error = first.error
                /\ ~parsed[1].reparsed

----------------------------------------------------------------------------
(* Properties of the pipeline, checked under SpecMain.  The definitions    *)
(* below read the trees of `listing` directly, not through the walk.       *)

TreeOf(f) == listing[f].root[1]

(* The elements of the corpus, as <<file, node>>. *)
CorpusElements ==
    {fn \in (1..Len(listing)) \X (1..MaxNodes) :
        /\ listing[fn[1]].root # None
        /\ fn[2] <= TreeOf(fn[1]).n
        /\ Node(TreeOf(fn[1]), fn[2]).isElement}

ElementOf(fn) == Node(TreeOf(fn[1]), fn[2])

ParentOf(t, node) == CHOOSE p \in 1..t.n : node \in Range(t.kids[p])

RECURSIVE AncestorTags(_, _)
AncestorTags(t, node) ==
    IF node = 1 THEN <<>>
    ELSE Append(AncestorTags(t, ParentOf(t, node)), Node(t, ParentOf(t, node)).tag)

RECURSIVE Depth(_, _)
Depth(t, node) == IF node = 1 THEN 0 ELSE 1 + Depth(t, ParentOf(t, node))

RECURSIVE IsAncestor(_, _, _)
IsAncestor(t, a, d) ==
    /\ d # 1
    /\ \/ ParentOf(t, d) = a
       \/ IsAncestor(t, a, ParentOf(t, d))

HasElementChild(t, node) == \E c \in Range(t.kids[node]) : Node(t, c).isElement

PositionIn(seq, x) == CHOOSE i \in 1..Len(seq) : seq[i] = x

WalkedTree == listing # <<>> /\ Last(listing).root # None

(* The records of the current file: the last Len(visited) of `records`. *)
FileRecord(i) == records[Len(records) - Len(visited) + i]

PreOrder(t, order) ==
    LET elements == {n \in 1..t.n : Node(t, n).isElement}
    IN /\ Len(order) = Cardinality(elements)
       /\ Range(order) = elements
       /\ \A a \in elements, d \in elements :
            IsAncestor(t, a, d) => PositionIn(order, a) < PositionIn(order, d)
       /\ \A p \in elements :
            \A i \in 1..Len(t.kids[p]), j \in 1..Len(t.kids[p]) :
                (i < j /\ Node(t, t.kids[p][i]).isElement
                       /\ Node(t, t.kids[p][j]).isElement) =>
                    /\ PositionIn(order, t.kids[p][i]) < PositionIn(order, t.kids[p][j])
                    /\ \A d \in elements :
                        IsAncestor(t, t.kids[p][i], d) =>
                            PositionIn(order, d) < PositionIn(order, t.kids[p][j])

Reported == pc \in {"report", "done"}

Usage == tag_attr_usage[1]

NonBlank(text) == text # None /\ \E i \in 1..Len(text[1]) : ~IsSpace(text[1][i])

(* The elements with tag `tag`, no child element and non-blank text. *)
LeafTexts(tag) ==
    {fn \in CorpusElements :
        /\ ElementOf(fn).tag = tag
        /\ ~HasElementChild(TreeOf(fn[1]), fn[2])
        /\ NonBlank(ElementOf(fn).text)}

(* C7: a tag's value stats are present iff some element with that tag had  *)
(* no child element and non-blank text; elements with child elements never *)
(* contribute a text value.                                                *)
C7_ValueStatsIffLeafText ==
    Reported =>
        /\ {Usage.elements[i].tag : i \in 1..Len(Usage.elements)}
                = {ElementOf(fn).tag : fn \in CorpusElements}
        /\ \A i \in 1..Len(Usage.elements) :
            LET e == Usage.elements[i]
            IN /\ e.value # None <=> LeafTexts(e.tag) # {}
               /\ e.value # None =>
                    e.value[1].value_samples.total_occurrences
                        = Cardinality(LeafTexts(e.tag))

(* A tag with value stats, and a tag without although one of its elements  *)
(* has non-blank text next to a child element.                             *)
C7_Witness ==
    /\ Reported
    /\ \E i \in 1..Len(Usage.elements) : Usage.elements[i].value # None
    /\ \E i \in 1..Len(Usage.elements) :
        /\ Usage.elements[i].value = None
        /\ \E fn \in CorpusElements :
            /\ ElementOf(fn).tag = Usage.elements[i].tag
            /\ HasElementChild(TreeOf(fn[1]), fn[2])
            /\ NonBlank(ElementOf(fn).text)

Namespaced(name) == name # <<>> /\ Head(name) = 123

(* The <<tag, attribute>> pairs of the corpus, namespaced ones left out. *)
Carried ==
    UNION {{<<ElementOf(fn).tag, kv[1]>> :
                kv \in {x \in Range(ElementOf(fn).attrib) : ~Namespaced(x[1])}} :
           fn \in CorpusElements}

Carriers(attr) ==
    {fn \in CorpusElements :
        \E kv \in Range(ElementOf(fn).attrib) : kv[1] = attr}

(* C10: attribute a is in the 'attributes' of tag t iff t is in the 'tags' *)
(* of attribute a iff some element with tag t carried the non-namespaced   *)
(* attribute a; namespaced attributes appear nowhere, and an attribute's   *)
(* total_occurrences is the number of elements that carried it.            *)
C10_TagAttributeRelation ==
    Reported =>
        /\ UNION {{<<Usage.elements[i].tag, a>> :
                        a \in Range(Usage.elements[i].attributes)} :
                  i \in 1..Len(Usage.elements)} = Carried
        /\ UNION {{<<t, Usage.attributes[i].attribute>> :
                        t \in Range(Usage.attributes[i].tags)} :
                  i \in 1..Len(Usage.attributes)} = Carried
        /\ \A i \in 1..Len(Usage.attributes) :
            /\ ~Namespaced(Usage.attributes[i].attribute)
            /\ Usage.attributes[i].value.value_samples.total_occurrences
                    = Cardinality(Carriers(Usage.attributes[i].attribute))

(* One attribute carried by both tags, and a namespaced attribute present. *)
C10_Witness ==
    /\ Reported
    /\ Cardinality(Carried) >= 2
    /\ \E fn \in CorpusElements :
        \E kv \in Range(ElementOf(fn).attrib) : Namespaced(kv[1])

EntityError == "xmlParseEntityRef: no name"

(* A file whose parse fails fatally: a first error that is not the         *)
(* unescaped-entity error, or any error of the parse after the repair.     *)
Fatal(bytes) ==
    \/ EtreeParse(bytes).error \notin {"", EntityError}
    \/ /\ EtreeParse(bytes).error = EntityError
       /\ EtreeParse(ReplaceAmp(bytes)).error # ""

AnyFatal == \E f \in 1..Len(listing) : Fatal(listing[f].content)

(* C9: once the parse of a file has failed fatally the run has ended with  *)
(* nothing written, and anything is written only after every file was      *)
(* parsed and every record of every file aggregated.                       *)
C9_NoReportAfterFatalParse ==
    /\ AnyFatal => (pc = "crashed" /\ output = <<>> /\ tag_attr_usage = None)
    /\ output # <<>> =>
        /\ ~AnyFatal
        /\ stack = <<>>
        /\ Len(records) = Cardinality(CorpusElements)
        /\ tag_attr_usage = Some(aggregate_tag_attribute_usage(records))

(* A run that ends at the re-parse of a repaired file, after the records   *)
(* of an earlier file were aggregated.                                     *)
C9_Witness ==
    /\ pc = "crashed"
    /\ records # <<>>
    /\ EtreeParse(Last(listing).content).error = EntityError

Injective(p) == \A i \in DOMAIN p, j \in DOMAIN p : p[i] = p[j] => i = j

(* The orderings of the documents other than the one the run took. *)
Orderings ==
    {p \in [1..Len(listing) -> 1..Len(listing)] :
        Injective(p) /\ \E i \in 1..Len(listing) : p[i] # i}

RECURSIVE RecordsInOrder(_, _)
RecordsInOrder(p, i) ==
    IF i > Len(p) THEN <<>>
    ELSE list_tag_attribute_usage(TreeOf(p[i])) \o RecordsInOrder(p, i + 1)

ResultInOrder(p) == aggregate_tag_attribute_usage(RecordsInOrder(p, 1))

UpToTies(stats) ==
    LET values == stats.value_samples.values
    IN [datatype |-> stats.datatype,
        exhaustive |-> stats.value_samples.exhaustive,
        total_occurrences |-> stats.value_samples.total_occurrences,
        frequencies |-> [i \in 1..Len(values) |-> values[i][2]],
        sampled |-> IF stats.value_samples.exhaustive \/ Len(values) < 10
                       THEN Range(values) ELSE {}]

ResultUpToTies(usage) ==
    [elements |->
        [i \in 1..Len(usage.elements) |->
            [tag |-> usage.elements[i].tag,
             paths |-> usage.elements[i].paths,
             attributes |-> usage.elements[i].attributes,
             value |-> IF usage.elements[i].value = None THEN None
                       ELSE Some(UpToTies(usage.elements[i].value[1]))]],
     attributes |->
        [i \in 1..Len(usage.attributes) |->
            [attribute |-> usage.attributes[i].attribute,
             tags |-> usage.attributes[i].tags,
             value |-> UpToTies(usage.attributes[i].value)]]]

============================================================================
